---- MODULE Spec2Model ----
(***************************************************************************)
(* paginationHarvest (src/src/paginationHarvest.ts) as a state machine.    *)
(*                                                                         *)
(* One harvest call: fetcher selection, the awaited bootstrap fetch, the   *)
(* bounded-concurrency parallelWorker passes (initial pass and retry       *)
(* rounds) and the final assembly.  Every page fetch is a promise chain    *)
(*     activeFetcher(page, limit).then(f).catch(g).finally(h)              *)
(* whose callbacks run as jobs of their own, so the callbacks of different *)
(* pages interleave in every order.                                        *)
(*                                                                         *)
(* JS values.  An item is a tuple <<page, index, v>>: v is the item's      *)
(* truthiness as Boolean(item) sees it (0 for items such as 0, "", false,  *)
(* null), page and index say where the item came from.  An array element   *)
(* of allResults is a record [kind, items]: kind "hole" for an index that  *)
(* was never assigned, "undef" for an assigned undefined, "arr" for an     *)
(* array of items.                                                         *)
(***************************************************************************)
EXTENDS Integers, Sequences, FiniteSets, TLC

\* Bounds of the model.
MaxTotalPages == 3
MaxStartPage == 2
MaxParallelCap == 2
MaxRetryRounds == 1
MaxItems == 2
MaxFaults == 1

VARIABLES
  axiosParams,    \* option axiosParams is supplied
  fetchPageFn,    \* option fetchPageFn is supplied
  startPage,      \* option startPage
  maxParallel,    \* option maxParallel
  maxRetries,     \* option maxRetries
  onProgress,     \* option onProgress is supplied
  pc,             \* where the async function paginationHarvest is
  activeFetcher,  \* "axios", "fn" or "none" (not yet selected)
  firstResult,    \* what the bootstrap fetch resolved with
  totalPages,     \* const totalPages
  allResults,     \* the slot array
  fetchedPages,   \* let fetchedPages
  pages,          \* parallelWorker: its argument
  pointer,        \* parallelWorker: let pointer
  running,        \* parallelWorker: let running
  failed,         \* parallelWorker: let failed
  resolved,       \* parallelWorker: number of resolve(failed) calls of the pass
  chain,          \* per page: "idle", or where its promise chain is: "pending",
                  \* "rejected" (the .then callback threw), "finally"
  failedPages,    \* let failedPages
  retry,          \* the retry loop's counter
  data,           \* the returned data
  error,          \* why the returned promise rejected
  fetchCalls,     \* history: per page, number of activeFetcher invocations
  fulfilled,      \* history: the pages whose fetch has fulfilled, with any value
  succeeded,      \* history: the pages whose fetch has fulfilled with an item array
  progressCalls,  \* history: number of onProgress invocations
  faults,         \* history: number of later fetches that fulfilled without an item
                  \* array, plus number of throws of onProgress in .then callbacks
  reported,       \* history: the arguments of the onProgress invocations, in order
  threw           \* history: an onProgress invocation has thrown

config == <<axiosParams, fetchPageFn, startPage, maxParallel, maxRetries, onProgress>>
worker == <<pages, pointer, running, failed, resolved, chain>>
ghost == <<fetchCalls, fulfilled, succeeded, progressCalls, faults, reported,
          threw>>
vars == <<config, pc, activeFetcher, firstResult, totalPages, allResults,
          fetchedPages, worker, failedPages, retry, data, error, ghost>>

Max(a, b) == IF a > b THEN a ELSE b
PageNums == 1..Max(MaxTotalPages, MaxStartPage)

----------------------------------------------------------------------------
\* JS values

Hole == [kind |-> "hole", items |-> <<>>]
Undefined == [kind |-> "undef", items |-> <<>>]
Arr(items) == [kind |-> "arr", items |-> items]

\* An undefined array element, seen as an item.
UndefinedItem == <<0, 0, 0>>

\* Boolean(x) for an item.
BooleanItem(item) == item[3] # 0

\* Boolean(x) for an element of allResults: arrays are truthy, also empty ones.
BooleanSlot(slot) == slot.kind = "arr"

\* The first n items of page p: item 2 is a falsy one.
Items(p, n) == [i \in 1..n |-> <<p, i, IF i = 2 THEN 0 ELSE 1>>]

\* The item sequences the first page can answer with: none or MaxItems items.
FirstPayloads(p) == { Items(p, 0), Items(p, MaxItems) }

\* The item sequence a later page answers with, whenever it answers: page
\* startPage + 1 has MaxItems items, the next one MaxItems - 1, and so on
\* down to an empty page.
LaterPayloads(p, sp) == { Items(p, Max(MaxItems + 1 - (p - sp), 0)) }

\* Array(n) for n >= 0: n holes.
ArrayOf(n) == [i \in 1..n |-> Hole]

\* arr[page - 1] = v; an index past the end extends the array with holes.
SetSlot(arr, page, v) ==
  IF page <= Len(arr) THEN [arr EXCEPT ![page] = v]
  ELSE arr \o [i \in 1..(page - Len(arr) - 1) |-> Hole] \o <<v>>

\* arr.filter(Boolean) on the slot array: holes are skipped, falsy elements dropped.
FilterSlots(arr) == SelectSeq(arr, BooleanSlot)

\* arr.flat(): holes are skipped, arrays are spliced in, anything else is kept.
RECURSIVE Flat(_)
Flat(arr) ==
  IF arr = <<>> THEN <<>>
  ELSE LET h == Head(arr) IN
       (CASE h.kind = "arr" -> h.items
          [] h.kind = "hole" -> <<>>
          [] OTHER -> <<UndefinedItem>>) \o Flat(Tail(arr))

\* items.filter(Boolean) on a flat item sequence.
FilterItems(items) == SelectSeq(items, BooleanItem)

----------------------------------------------------------------------------
\* Fetch results

\* A value a fetch promise fulfils with.  kind "null": the value is null or
\* undefined; "undef": an object whose data is not an array; "arr": an object
\* whose data is the array items.  hasTotal/total: its totalPages field.
Result(kind, items, hasTotal, total) ==
  [kind |-> kind, items |-> items, hasTotal |-> hasTotal, total |-> total]

NoResult == Result("none", <<>>, FALSE, 0)

\* The totalPages a first result can report: nothing, or an integer.
ReportedTotals(fetcher) ==
  { <<TRUE, t>> : t \in -1..MaxTotalPages } \cup
  (IF fetcher = "fn" THEN {<<FALSE, 0>>} ELSE {})

\* What activeFetcher(p, limit) can fulfil with.  axiosPageFetcher throws unless
\* axiosParams is there and the response holds an array, and always reports a
\* number as totalPages; a fetchPageFn can fulfil with anything.
FetchResults(fetcher, ax, payloads, totals) ==
  IF fetcher = "axios" /\ ~ax THEN {}
  ELSE { Result("arr", items, t[1], t[2]) : items \in payloads, t \in totals } \cup
       (IF fetcher = "fn"
        THEN { Result("undef", <<>>, t[1], t[2]) : t \in totals } \cup
             { Result("null", <<>>, FALSE, 0) }
        ELSE {})

\* The totalPages of a page after the first is never read.
LaterTotals == {<<FALSE, 0>>}

\* res.data as an element of allResults.
DataOf(res) == IF res.kind = "arr" THEN Arr(res.items) ELSE Undefined

\* if (axiosParams) ... else if (fetchPageFn) ... else throw
SelectFetcherAlwaysAxios(ax, fn) == IF ax \/ ~fn THEN "axios" ELSE "fn"
SelectFetcher(ax, fn) == IF ax THEN "axios" ELSE IF fn THEN "fn" ELSE "none"

\* !(!firstResult || !Array.isArray(firstResult.data))
ValidFirstResultNoArrayCheck(res) == res.kind # "null"
ValidFirstResult(res) == res.kind # "null" /\ res.kind = "arr"

\* firstResult.totalPages || 1
TotalPagesOf(res) == IF res.hasTotal /\ res.total # 0 THEN res.total ELSE 1

\* for (let i = startPage + 1; i <= totalPages; ++i) pagesToFetch.push(i)
PagesToFetchFromStart(sp, tp) == [i \in 1..Max(tp - sp + 1, 0) |-> sp + i - 1]
PagesToFetch(sp, tp) == [i \in 1..Max(tp - sp, 0) |-> sp + i]

----------------------------------------------------------------------------
\* parallelWorker


\* while (running < maxParallel && pointer < pages.length)
WhileCondOffByOne(run, cap, ptr, len) == run <= cap /\ ptr < len
WhileCond(run, cap, ptr, len) == run < cap /\ ptr < len

\* An if in place of the while: one launch at most per call of runNext.
LaunchLoopOnce(pgs, ptr, run, cap) ==
  IF WhileCond(run, cap, ptr, Len(pgs))
  THEN [pointer |-> ptr + 1, running |-> run + 1]
  ELSE [pointer |-> ptr, running |-> run]

\* The while loop of runNext: each turn takes pages[pointer++] and running++.
RECURSIVE LaunchLoop(_, _, _, _)
LaunchLoop(pgs, ptr, run, cap) ==
  IF WhileCond(run, cap, ptr, Len(pgs))
  THEN LaunchLoop(pgs, ptr + 1, run + 1, cap)
  ELSE [pointer |-> ptr, running |-> run]

\* pointer === pages.length && running === 0
ResolveCondIgnoresRunning(ptr, len, run) == ptr = len
ResolveCond(ptr, len, run) == ptr = len /\ run = 0

\* runNext(): resolve(failed) and return, or launch.
RunNext(pgs, ptr, run, cap) ==
  IF ResolveCond(ptr, Len(pgs), run)
  THEN [pointer |-> ptr, running |-> run, resolve |-> 1]
  ELSE LET l == LaunchLoop(pgs, ptr, run, cap)
       IN [pointer |-> l.pointer, running |-> l.running, resolve |-> 0]

\* The pages runNext launched when it moved the pointer from ptr to ptr2.
Launched(pgs, ptr, ptr2) == { pgs[i] : i \in (ptr + 1)..ptr2 }

\* How often page p is among them.
LaunchCount(pgs, ptr, ptr2, p) == Cardinality({ i \in (ptr + 1)..ptr2 : pgs[i] = p })

\* parallelWorker(pgs): fresh failed, pointer, running, and the first runNext().
CallParallelWorker(pgs) ==
  LET n == RunNext(pgs, 0, 0, maxParallel) IN
  /\ pages' = pgs
  /\ failed' = <<>>
  /\ pointer' = n.pointer
  /\ running' = n.running
  /\ resolved' = n.resolve
  /\ chain' = [p \in PageNums |->
                 IF p \in Launched(pgs, 0, n.pointer) THEN "pending" ELSE "idle"]
  /\ fetchCalls' = [p \in PageNums |->
                      fetchCalls[p] + LaunchCount(pgs, 0, n.pointer, p)]

\* retry < maxRetries && failedPages.length > 0
RetryCondOneMore(r, mr, fp) == r <= mr /\ Len(fp) > 0
RetryCond(r, mr, fp) == r < mr /\ Len(fp) > 0

\* failedPages.slice(), the argument of a retry round
SliceFromOne(fp) == SubSeq(fp, 2, Len(fp))
Slice(fp) == fp

\* The arguments of onProgress?.(fetchedPages, totalPages)
ProgressArgsBeforeCount(fp, tp) == <<fp - 1, tp>>
ProgressArgs(fp, tp) == <<fp, tp>>

----------------------------------------------------------------------------
\* The call

Init ==
  /\ axiosParams \in BOOLEAN
  /\ fetchPageFn \in BOOLEAN
  /\ startPage \in 1..MaxStartPage
  /\ maxParallel \in 1..MaxParallelCap
  /\ maxRetries \in 0..MaxRetryRounds
  /\ onProgress \in BOOLEAN
  /\ pc = "call"
  /\ activeFetcher = "none"
  /\ firstResult = NoResult
  /\ totalPages = 0
  /\ allResults = <<>>
  /\ fetchedPages = 0
  /\ pages = <<>>
  /\ pointer = 0
  /\ running = 0
  /\ failed = <<>>
  /\ resolved = 0
  /\ chain = [p \in PageNums |-> "idle"]
  /\ failedPages = <<>>
  /\ retry = 0
  /\ data = <<>>
  /\ error = "none"
  /\ fetchCalls = [p \in PageNums |-> 0]
  /\ fulfilled = {}
  /\ succeeded = {}
  /\ progressCalls = 0
  /\ faults = 0
  /\ reported = <<>>
  /\ threw = FALSE

\* The async function's promise rejects with reason why; nothing else changes.
Throw(why) ==
  /\ pc' = "rejected"
  /\ error' = why

\* onProgress?.(fp, tp): an invocation when the option is supplied.
CallOnProgress(fp, tp) ==
  /\ progressCalls' = progressCalls + (IF onProgress THEN 1 ELSE 0)
  /\ reported' = IF onProgress THEN Append(reported, ProgressArgs(fp, tp))
                 ELSE reported

\* Lines 79-87: no fetcher to select.
NoFetcher ==
  /\ pc = "call"
  /\ SelectFetcher(axiosParams, fetchPageFn) = "none"
  /\ Throw("config")
  /\ UNCHANGED <<config, activeFetcher, firstResult, totalPages, allResults,
                 fetchedPages, worker, failedPages, retry, data, ghost>>

\* Lines 79-90: the fetcher is selected and called for startPage.
FetchFirstPage ==
  /\ pc = "call"
  /\ SelectFetcher(axiosParams, fetchPageFn) # "none"
  /\ activeFetcher' = SelectFetcher(axiosParams, fetchPageFn)
  /\ fetchCalls' = [fetchCalls EXCEPT ![startPage] = @ + 1]
  /\ pc' = "bootstrap"
  /\ UNCHANGED <<config, firstResult, totalPages, allResults, fetchedPages,
                 worker, failedPages, retry, data, error, fulfilled,
                 succeeded, progressCalls, reported, faults, threw>>

\* Line 90: the first fetch rejects, and so does the await.
BootstrapRejects ==
  /\ pc = "bootstrap"
  /\ Throw("bootstrap")
  /\ UNCHANGED <<config, activeFetcher, firstResult, totalPages, allResults,
                 fetchedPages, worker, failedPages, retry, data, ghost>>

\* The first fetch fulfils with res.
FirstFetchFulfils(res) ==
  /\ pc = "bootstrap"
  /\ res \in FetchResults(activeFetcher, axiosParams, FirstPayloads(startPage),
                          ReportedTotals(activeFetcher))
  /\ firstResult' = res
  /\ fulfilled' = fulfilled \cup {startPage}
  /\ succeeded' = succeeded \cup (IF res.kind = "arr" THEN {startPage} ELSE {})

\* Lines 91-92: the first result is not valid.
BootstrapMalformed ==
  /\ \E res \in FetchResults(activeFetcher, axiosParams, FirstPayloads(startPage),
                             ReportedTotals(activeFetcher)) :
       /\ FirstFetchFulfils(res)
       /\ ~ValidFirstResult(res)
  /\ Throw("bootstrap")
  /\ UNCHANGED <<config, activeFetcher, totalPages, allResults, fetchedPages,
                 worker, failedPages, retry, data, fetchCalls, progressCalls,
                 reported, faults, threw>>

\* Lines 94-95: Array(totalPages) throws a RangeError for a negative length.
BootstrapRangeError ==
  /\ \E res \in FetchResults(activeFetcher, axiosParams, FirstPayloads(startPage),
                             ReportedTotals(activeFetcher)) :
       /\ FirstFetchFulfils(res)
       /\ ValidFirstResult(res)
       /\ TotalPagesOf(res) < 0
       /\ totalPages' = TotalPagesOf(res)
  /\ Throw("range")
  /\ UNCHANGED <<config, activeFetcher, allResults, fetchedPages, worker,
                 failedPages, retry, data, fetchCalls, progressCalls, reported,
                 faults, threw>>

\* Lines 94-97: totalPages, the slot array with the first page in it, fetchedPages.
StoreFirstPage(res) ==
  /\ FirstFetchFulfils(res)
  /\ ValidFirstResult(res)
  /\ TotalPagesOf(res) >= 0
  /\ totalPages' = TotalPagesOf(res)
  /\ allResults' = SetSlot(ArrayOf(TotalPagesOf(res)), startPage, DataOf(res))
  /\ fetchedPages' = 1

\* Line 98: onProgress?.(fetchedPages, totalPages) throws out of the function.
BootstrapProgressThrows ==
  /\ \E res \in FetchResults(activeFetcher, axiosParams, FirstPayloads(startPage),
                             ReportedTotals(activeFetcher)) :
       StoreFirstPage(res)
  /\ onProgress
  /\ CallOnProgress(fetchedPages', totalPages')
  /\ threw' = TRUE
  /\ Throw("callback")
  /\ UNCHANGED <<config, activeFetcher, worker, failedPages, retry, data,
                 fetchCalls, faults>>

\* Lines 94-102: totalPages is 1 and the first page is returned.
ShortCircuit ==
  /\ \E res \in FetchResults(activeFetcher, axiosParams, FirstPayloads(startPage),
                             ReportedTotals(activeFetcher)) :
       /\ StoreFirstPage(res)
       /\ TotalPagesOf(res) = 1
  /\ CallOnProgress(fetchedPages', totalPages')
  /\ data' = FilterItems(Flat(allResults'))
  /\ failedPages' = <<>>
  /\ pc' = "done"
  /\ UNCHANGED <<config, activeFetcher, worker, retry, error, fetchCalls,
                 faults, threw>>

\* Lines 94-139: more pages than one; the first pass of parallelWorker starts.
StartParallel ==
  /\ \E res \in FetchResults(activeFetcher, axiosParams, FirstPayloads(startPage),
                             ReportedTotals(activeFetcher)) :
       /\ StoreFirstPage(res)
       /\ TotalPagesOf(res) # 1
  /\ CallOnProgress(fetchedPages', totalPages')
  /\ CallParallelWorker(PagesToFetch(startPage, totalPages'))
  /\ pc' = "parallel"
  /\ UNCHANGED <<config, activeFetcher, failedPages, retry, data, error,
                 faults, threw>>

----------------------------------------------------------------------------
\* One page's promise chain (lines 119-131).  The callback that handles the
\* fetch's outcome runs when the fetch settles; a callback that handles what an
\* earlier callback threw, and the .finally callback, are jobs of their own.

main == <<pc, activeFetcher, firstResult, totalPages, failedPages, retry, data, error>>

\* The values the fetch of a later page p can fulfil with.
LaterResults(p) ==
  FetchResults(activeFetcher, axiosParams, LaterPayloads(p, startPage), LaterTotals)

\* A chain without .catch: the rejection of page p's fetch rejects the harvest.
FetchRejectsPropagates(p) ==
  /\ chain[p] = "pending"
  /\ Throw("page")
  /\ UNCHANGED <<config, activeFetcher, firstResult, totalPages, allResults,
                 fetchedPages, worker, failedPages, retry, data, ghost>>

\* A .catch callback that reports progress as well.
FetchRejectsReportsProgress(p) ==
  /\ chain[p] = "pending"
  /\ failed' = Append(failed, p)
  /\ chain' = [chain EXCEPT ![p] = "finally"]
  /\ CallOnProgress(fetchedPages, totalPages)
  /\ UNCHANGED <<config, main, allResults, fetchedPages, pages, pointer,
                 running, resolved, fetchCalls, fulfilled, succeeded, faults,
                 threw>>

\* Lines 119, 125-127: the fetch of page p rejects, .then passes the rejection
\* on and the .catch callback records the page.
FetchRejects(p) ==
  /\ chain[p] = "pending"
  /\ failed' = Append(failed, p)
  /\ chain' = [chain EXCEPT ![p] = "finally"]
  /\ UNCHANGED <<config, main, allResults, fetchedPages, pages, pointer,
                 running, resolved, ghost>>

\* Line 121: the fetch fulfils with null or undefined, so res.data throws a
\* TypeError in the .then callback.
ThenTypeError(p) ==
  /\ chain[p] = "pending"
  /\ \E res \in LaterResults(p) :
       /\ res.kind = "null"
       /\ chain' = [chain EXCEPT ![p] = "rejected"]
  /\ faults < MaxFaults
  /\ faults' = faults + 1
  /\ fulfilled' = fulfilled \cup {p}
  /\ UNCHANGED <<config, main, allResults, fetchedPages, pages, pointer,
                 running, failed, resolved, fetchCalls, succeeded,
                 progressCalls, reported, threw>>

\* Lines 121-122: the fetch fulfils with an object res; the slot write and the count.
StorePage(p, res) ==
  /\ chain[p] = "pending"
  /\ res \in LaterResults(p)
  /\ res.kind # "null"
  /\ allResults' = SetSlot(allResults, p, DataOf(res))
  /\ fetchedPages' = fetchedPages + 1
  /\ fulfilled' = fulfilled \cup {p}
  /\ succeeded' = succeeded \cup (IF res.kind = "arr" THEN {p} ELSE {})

\* Lines 120-124: the .then callback runs to its end.
ThenCallback(p) ==
  /\ \E res \in LaterResults(p) :
       /\ StorePage(p, res)
       /\ faults' = faults + (IF res.kind = "arr" THEN 0 ELSE 1)
       /\ chain' = [chain EXCEPT ![p] = "finally"]
  /\ faults' <= MaxFaults
  /\ CallOnProgress(fetchedPages', totalPages)
  /\ UNCHANGED <<config, main, pages, pointer, running, failed, resolved,
                 fetchCalls, threw>>

\* Lines 120-124: onProgress throws in the .then callback, after the slot write.
ThenProgressThrows(p) ==
  /\ onProgress
  /\ \E res \in LaterResults(p) :
       /\ StorePage(p, res)
       /\ faults' = faults + (IF res.kind = "arr" THEN 1 ELSE 2)
       /\ chain' = [chain EXCEPT ![p] = "rejected"]
  /\ faults' <= MaxFaults
  /\ CallOnProgress(fetchedPages', totalPages)
  /\ threw' = TRUE
  /\ UNCHANGED <<config, main, pages, pointer, running, failed, resolved,
                 fetchCalls>>

\* Lines 125-127: the .catch callback, for what the .then callback threw.
CatchCallback(p) ==
  /\ chain[p] = "rejected"
  /\ failed' = Append(failed, p)
  /\ chain' = [chain EXCEPT ![p] = "finally"]
  /\ UNCHANGED <<config, main, allResults, fetchedPages, pages, pointer,
                 running, resolved, ghost>>

\* Lines 128-131 with 114-133: the .finally callback, running-- and runNext().
FinallyCallback(p) ==
  /\ chain[p] = "finally"
  /\ LET n == RunNext(pages, pointer, running - 1, maxParallel) IN
       /\ pointer' = n.pointer
       /\ running' = n.running
       /\ resolved' = resolved + n.resolve
       /\ chain' = [q \in PageNums |->
                      IF q \in Launched(pages, pointer, n.pointer) THEN "pending"
                      ELSE IF q = p THEN "idle" ELSE chain[q]]
       /\ fetchCalls' = [q \in PageNums |->
                           fetchCalls[q] + LaunchCount(pages, pointer, n.pointer, q)]
  /\ UNCHANGED <<config, main, allResults, fetchedPages, pages, failed,
                 fulfilled, succeeded, progressCalls, reported, faults, threw>>

----------------------------------------------------------------------------
\* After a pass (lines 139-150)

\* The value of retry when the loop condition is next evaluated.
NextRetry == IF pc = "parallel" THEN 0 ELSE retry + 1

\* Lines 139-144: the awaited pass has resolved and a retry round starts.
RetryRound ==
  /\ pc \in {"parallel", "retry"}
  /\ resolved > 0
  /\ RetryCond(NextRetry, maxRetries, failed)
  /\ failedPages' = failed
  /\ retry' = NextRetry
  /\ CallParallelWorker(Slice(failed))
  /\ pc' = "retry"
  /\ UNCHANGED <<config, activeFetcher, firstResult, totalPages, allResults,
                 fetchedPages, data, error, fulfilled, succeeded,
                 progressCalls, reported, faults, threw>>

\* Lines 139-150: the awaited pass has resolved and the result is returned.
ReturnResult ==
  /\ pc \in {"parallel", "retry"}
  /\ resolved > 0
  /\ ~RetryCond(NextRetry, maxRetries, failed)
  /\ failedPages' = failed
  /\ retry' = NextRetry
  /\ data' = Flat(FilterSlots(allResults))
  /\ pc' = "done"
  /\ UNCHANGED <<config, activeFetcher, firstResult, totalPages, allResults,
                 fetchedPages, worker, error, ghost>>

Next ==
  \/ NoFetcher
  \/ FetchFirstPage
  \/ BootstrapRejects
  \/ BootstrapMalformed
  \/ BootstrapRangeError
  \/ BootstrapProgressThrows
  \/ ShortCircuit
  \/ StartParallel
  \/ \E p \in PageNums : FetchRejects(p)
  \/ \E p \in PageNums : ThenTypeError(p)
  \/ \E p \in PageNums : ThenCallback(p)
  \/ \E p \in PageNums : ThenProgressThrows(p)
  \/ \E p \in PageNums : CatchCallback(p)
  \/ \E p \in PageNums : FinallyCallback(p)
  \/ RetryRound
  \/ ReturnResult

Spec == Init /\ [][Next]_vars

\* Every launched fetch settles, every queued callback runs and every await
\* whose promise has settled continues: some enabled step is always taken.
FairSpec == Spec /\ WF_vars(Next)

----------------------------------------------------------------------------
\* Vocabulary of the properties

\* The pages whose fetch has been launched and has not settled.
InFlight == { p \in PageNums : chain[p] = "pending" }

\* The pages after startPage, up to totalPages.
LaterPages == (startPage + 1)..totalPages

\* The page numbers in a sequence of page numbers.
Range(seq) == { seq[i] : i \in 1..Len(seq) }

\* The slot of page p holds nothing the assembly keeps.
EmptySlot(p) == p > Len(allResults) \/ ~BooleanSlot(allResults[p])

\* The slot of page p was never assigned.
UnwrittenSlot(p) == p > Len(allResults) \/ allResults[p].kind = "hole"

\* The items of the non-empty slots among the first n, in page order.
RECURSIVE ConcatPages(_, _)
ConcatPages(arr, n) ==
  IF n = 0 THEN <<>>
  ELSE ConcatPages(arr, n - 1) \o (IF arr[n].kind = "arr" THEN arr[n].items ELSE <<>>)

\* The harvest has returned a result.
Done == pc = "done"

\* A pass of parallelWorker is awaited.
InPass == pc \in {"parallel", "retry"}

\* The number of fetch invocations for the pages other than startPage, among
\* the first n page numbers.
RECURSIVE Attempts(_)
Attempts(n) ==
  IF n = 0 THEN 0
  ELSE Attempts(n - 1) + (IF n = startPage THEN 0 ELSE fetchCalls[n])

LaterAttempts == Attempts(Max(MaxTotalPages, MaxStartPage))

\* The page numbers of seq ascend strictly.
Ascending(seq) == \A i, j \in 1..Len(seq) : i < j => seq[i] < seq[j]

\* The pages the awaited pass has launched: those before its pointer.
LaunchedInPass == { pages[i] : i \in 1..pointer }

\* The pages whose promise chain has not run to its end.
Unsettled == { p \in PageNums : chain[p] # "idle" }

----------------------------------------------------------------------------
\* C1: in every state of every pass, with maxParallel >= 1, at most maxParallel
\* page fetches are launched and not yet settled.
C1_ConcurrencyCap == maxParallel >= 1 => Cardinality(InFlight) <= maxParallel

\* The cap binds: maxParallel fetches in flight while pages still wait.
C1_Witness == Cardinality(InFlight) = maxParallel /\ pointer < Len(pages)

\* C2: when the harvest resolves, data is the concatenation, in ascending page
\* order, of the item sequences of the pages whose slot is non-empty.
C2_DataIsSlotsInPageOrder == Done => data = ConcatPages(allResults, Len(allResults))

\* C3: when totalPages resolves to 1 the harvest returns the first page's items
\* exactly, with no failed page and no further fetch.
C3_ShortCircuitReturnsFirstItems ==
  (Done /\ totalPages = 1) =>
    /\ data = firstResult.items
    /\ failedPages = <<>>
    /\ \A p \in PageNums : fetchCalls[p] = (IF p = startPage THEN 1 ELSE 0)

\* C4: when the harvest resolves, every page of failedPages lies in
\* startPage+1 .. totalPages, startPage is no member, and no page occurs twice.
C4_FailedPagesInRange ==
  Done =>
    /\ Range(failedPages) \subseteq LaterPages
    /\ startPage \notin Range(failedPages)
    /\ \A i, j \in 1..Len(failedPages) : failedPages[i] = failedPages[j] => i = j

\* Two pages have failed for good.
C4_Witness == Done /\ Len(failedPages) >= 2

\* C5, for the harvests that start at page 1: when the harvest resolves,
\* failedPages is exactly the set of pages in 1..totalPages with an empty slot.
C5_FailedPagesAreTheEmptySlots ==
  (Done /\ startPage = 1) =>
    Range(failedPages) = { p \in 1..totalPages : EmptySlot(p) }

\* C6: a throwing progress callback is isolated: the harvest does not fail
\* because of it, and no page whose fetch succeeded is recorded as failed.
C6_CallbackIsolated ==
  /\ error # "callback"
  /\ \A p \in succeeded : p \notin Range(failed) /\ p \notin Range(failedPages)

\* C7: at most maxRetries retry rounds run, every later page is fetched at most
\* 1 + maxRetries times (exactly once when maxRetries = 0), and a page whose
\* fetch failed in every round is in failedPages and has no item in data.
C7_RetryRoundsBounded ==
  /\ retry <= maxRetries
  /\ \A p \in PageNums : p # startPage => fetchCalls[p] <= 1 + maxRetries
  /\ (Done /\ totalPages # 1) =>
       \A p \in LaterPages :
         /\ fetchCalls[p] >= 1
         /\ p \notin fulfilled =>
              /\ fetchCalls[p] = 1 + maxRetries
              /\ p \in Range(failedPages)
              /\ UnwrittenSlot(p)
              /\ \A i \in 1..Len(data) : data[i][1] # p

\* With retries allowed, one page failed every time and another one succeeded.
C7_Witness ==
  /\ Done
  /\ maxRetries >= 1
  /\ \E p, q \in LaterPages :
       /\ p \notin fulfilled /\ p \in Range(failedPages)
       /\ q \in succeeded /\ q \notin Range(failedPages)

\* C8: when the harvest resolves, a later page whose fetch succeeded on one of
\* its attempts is not in failedPages and its slot holds its items.
C8_SucceededPageIsKept ==
  Done =>
    \A p \in succeeded \ {startPage} :
      p \notin Range(failedPages) /\ ~EmptySlot(p)

\* C9: when the bootstrap fetch rejects or fulfils without an item array, the
\* harvest fails: no result, one fetch invocation in all, no callback invocation.
C9_BootstrapFailureIsFatal ==
  (activeFetcher # "none" /\ pc # "bootstrap" /\ startPage \notin succeeded) =>
    /\ pc = "rejected"
    /\ error = "bootstrap"
    /\ \A p \in PageNums : fetchCalls[p] = (IF p = startPage THEN 1 ELSE 0)
    /\ InFlight = {}
    /\ progressCalls = 0
    /\ data = <<>>

\* The bootstrap fetch fulfilled with an object that has no item array.
C9_Witness == pc = "rejected" /\ error = "bootstrap" /\ firstResult.kind = "undef"

\* C10: without axiosParams and fetchPageFn the harvest fails at once: no fetch
\* and no callback is invoked, and there is no result.
C10_NoFetcherIsFatal ==
  (~axiosParams /\ ~fetchPageFn /\ pc # "call") =>
    /\ pc = "rejected"
    /\ error = "config"
    /\ \A p \in PageNums : fetchCalls[p] = 0
    /\ progressCalls = 0
    /\ data = <<>>
    /\ failedPages = <<>>

\* The call was made without a fetcher and has failed.
C10_Witness == ~axiosParams /\ ~fetchPageFn /\ pc = "rejected" /\ error = "config"

C12_TotalPagesIsPositiveTotalOrOne ==
  (startPage \in succeeded /\ pc \notin {"call", "bootstrap"}) =>
    /\ totalPages = (IF firstResult.hasTotal /\ firstResult.total > 0
                     THEN firstResult.total ELSE 1)
    /\ Len(allResults) >= totalPages
    /\ error # "range"

\* C13 as stated: the callback is invoked once for the first page and once for
\* every fetch attempt on a later page, rejected or not: 1 + A times for A
\* attempts.
C13_CallbackOncePerAttempt ==
  (Done /\ onProgress) => progressCalls = 1 + LaterAttempts

\* C13, amended: the callback is invoked once for the first page and once for
\* every later fetch that fulfils with a result object, and not for a fetch
\* that rejects: as often as fetchedPages counts, which is once per succeeded
\* later page when no callback throws and no result lacks its item array.
C13_CallbackOncePerFulfilment ==
  /\ onProgress => progressCalls = fetchedPages
  /\ (onProgress /\ faults = 0 /\ ~threw /\ startPage \in succeeded /\ error = "none") =>
       progressCalls = 1 + Cardinality(succeeded \ {startPage})
  /\ ~onProgress => progressCalls = 0

\* A harvest with a callback where a later fetch rejected and another fulfilled.
C13_Witness ==
  /\ Done
  /\ onProgress
  /\ progressCalls >= 2
  /\ progressCalls < 1 + LaterAttempts

\* C14 as stated: a retry round runs over the pages that failed in the pass
\* before it and launches them in ascending page order.
C14_RetryLaunchesAscending ==
  pc = "retry" => (Range(pages) = Range(failedPages) /\ Ascending(pages))

\* C14, amended: a retry round runs over exactly the pages that failed in the
\* pass before it and launches them in the order in which that pass recorded
\* their failures, a page being launched only when all before it in that order
\* are; the order is ascending when maxParallel = 1.
C14_RetryLaunchesInRecordedOrder ==
  pc = "retry" =>
    /\ pages = failedPages
    /\ \A i \in 1..Len(pages) :
         fetchCalls[pages[i]] = retry + (IF i <= pointer THEN 2 ELSE 1)
    /\ Unsettled \cup Range(failed) \subseteq LaunchedInPass
    /\ maxParallel = 1 => Ascending(pages)

\* A retry round that launches a higher page before a lower one.
C14_Witness ==
  /\ pc = "retry"
  /\ Len(pages) >= 2
  /\ pages[1] > pages[2]
  /\ pointer >= 2

\* C15: a pass resolves at most once, and when it has resolved its pointer is
\* past every page of its input, no fetch is in flight, and every page of its
\* input has been launched exactly once in this pass and has settled.
C15_PassResolvesOnceWhenDrained ==
  /\ resolved <= 1
  /\ (InPass /\ resolved > 0) =>
       /\ pointer = Len(pages)
       /\ running = 0
       /\ Unsettled = {}
       /\ \A i, j \in 1..Len(pages) : pages[i] = pages[j] => i = j
       /\ \A p \in Range(pages) :
            /\ fetchCalls[p] = (IF pc = "parallel" THEN 1 ELSE retry + 2)
            /\ p \in Range(failed) \/ p \in fulfilled

\* A retry pass over two pages has resolved.
C15_Witness == pc = "retry" /\ resolved = 1 /\ Len(pages) >= 2

\* C16: over a whole harvest, a throwing progress callback included, no slot is
\* written twice and no page has two fetches in flight: the first page is
\* fetched once, a pass holds no page twice, and a later page with a fetch in
\* flight has a slot that no earlier fetch wrote.
C16_SlotWrittenAtMostOnce ==
  /\ fetchCalls[startPage] <= 1
  /\ \A i, j \in 1..Len(pages) : pages[i] = pages[j] => i = j
  /\ \A p \in InFlight : UnwrittenSlot(p)

\* C17: at every point after the first page is stored at which no fetch is in
\* flight, fetchedPages is the number of non-empty slots, whatever the fetches
\* fulfilled with and whether or not the callback threw.
C17_FetchedCountIsNonEmptySlots ==
  (pc \in {"parallel", "retry", "done"} /\ InFlight = {}) =>
    fetchedPages = Cardinality({ p \in 1..Len(allResults) : ~EmptySlot(p) })

\* C18: in every state of a pass, running is maxParallel or every page of the
\* input has been launched; running counts the launched chains that have not
\* run to their end; the launched pages are those before the pointer, in input
\* order; with maxParallel = 1 only the page launched last can be unsettled.
C18_WorkConservingInOrder ==
  InPass =>
    /\ running = maxParallel \/ pointer = Len(pages)
    /\ running = Cardinality(Unsettled)
    /\ Unsettled \subseteq LaunchedInPass
    /\ \A i \in 1..Len(pages) :
         fetchCalls[pages[i]] =
           (IF pc = "parallel" THEN 0 ELSE retry + 1) + (IF i <= pointer THEN 1 ELSE 0)
    /\ maxParallel = 1 => \A i \in 1..(pointer - 1) : chain[pages[i]] = "idle"

\* With maxParallel = 1 the second page of a pass is in flight, the first settled.
C18_Witness ==
  /\ InPass
  /\ maxParallel = 1
  /\ pointer = 2
  /\ chain[pages[2]] = "pending"
  /\ chain[pages[1]] = "idle"

\* C19: with a callback that has not thrown, the i-th invocation reports
\* (i, totalPages): the first is (1, totalPages) and precedes every later
\* fetch, each later one follows one page's stored result and counts one more,
\* and no reported count exceeds totalPages.
C19_ProgressIsCountOrdered ==
  (onProgress /\ ~threw) =>
    /\ \A i \in 1..Len(reported) : reported[i] = <<i, totalPages>>
    /\ \A i \in 1..Len(reported) : reported[i][1] <= reported[i][2]
    /\ LaterAttempts > 0 => Len(reported) >= 1
    /\ Len(reported) = fetchedPages
    /\ Len(reported) <=
         1 + Cardinality({ p \in PageNums \ {startPage} : ~UnwrittenSlot(p) })

\* A harvest of three pages has reported (1, 3), (2, 3) and (3, 3).
C19_Witness ==
  /\ Done
  /\ onProgress
  /\ ~threw
  /\ totalPages = 3
  /\ reported = <<<<1, 3>>, <<2, 3>>, <<3, 3>>>>

\* C20, on finite runs: once the first fetch has fulfilled with an item array
\* the harvest does not fail; with startPage <= totalPages there are at most
\* 1 + (totalPages - startPage) * (1 + maxRetries) fetch invocations; and a pass
\* that has not resolved has a chain that has not run to its end.
C20_HarvestReturnsWithinBound ==
  startPage \in succeeded =>
    /\ pc # "rejected"
    /\ startPage <= totalPages =>
         fetchCalls[startPage] + LaterAttempts
           <= 1 + (totalPages - startPage) * (1 + maxRetries)
    /\ (InPass /\ resolved = 0) => Unsettled # {}
    /\ (InPass /\ pointer < Len(pages)) => running > 0

====
